---- MODULE Spec2Model ----
(***************************************************************************)
(* Model of the voice transformer's real-time pipeline (src/src/main.rs):  *)
(* the capture callback (effect chain, AudioRing append, AnalysisWindow    *)
(* write, trim), the playback callback, the console control loop that      *)
(* writes the ParameterStore, and the visualization thread.                 *)
(*                                                                         *)
(* f32 values are fixed-point integers in units of 1/Q.  NaN and the two   *)
(* infinities are three reserved integers outside the range the finite     *)
(* values of the model reach; every float operator below treats them as    *)
(* IEEE-754 does.  The phase is kept in units of 2*pi/(sample_rate*Q), so   *)
(* that the per-sample increment 2*pi*f/sample_rate is exactly the         *)
(* fixed-point frequency.                                                  *)
(***************************************************************************)
EXTENDS Integers, Sequences, FiniteSets, TLC

\* ------------------------------------------------------------------ bounds
\* Samples the capture callback processes in a run of the audio path alone,
\* and in a run against the console; frames one playback block asks for;
\* console commands in a run; cycles of the visualization loop.
AudioSamples == 3
ConsoleSamples == 1
MaxFrames == 2
MaxCmds == 1
MaxCycles == 1
MaxConns == 2
MaxBroadcasts == 2
MaxWindow == 4
MaxDrained == 2
GateSamples == 2

\* ------------------------------------------------------- f32 as fixed point
Q == 10000
NaN == 2000000003
PosInf == 2000000001
NegInf == -2000000001

IsNaN(x) == x = NaN
IsInf(x) == x = PosInf \/ x = NegInf
IsFinite(x) == ~IsNaN(x) /\ ~IsInf(x)

Sign(x) == IF x > 0 THEN 1 ELSE IF x < 0 THEN -1 ELSE 0

\* Division of integers rounded to nearest (ties away from zero), b > 0.
RDiv(a, b) == IF a >= 0 THEN (2 * a + b) \div (2 * b)
                        ELSE -((2 * (-a) + b) \div (2 * b))

\* |a| * |b| / Q and |a| * Q / |b| with the sign restored, split into a whole
\* and a remainder part so that no intermediate product leaves 32 bits.
Mag(x) == IF x < 0 THEN -x ELSE x
MinMag(a, b) == IF Mag(a) <= Mag(b) THEN Mag(a) ELSE Mag(b)
MaxMag(a, b) == IF Mag(a) <= Mag(b) THEN Mag(b) ELSE Mag(a)
MulQ(a, b) == Sign(a) * Sign(b) *
              ((MaxMag(a, b) \div Q) * MinMag(a, b)
               + RDiv((MaxMag(a, b) % Q) * MinMag(a, b), Q))
DivQ(a, b) == Sign(a) * Sign(b) *
              ((Mag(a) \div Mag(b)) * Q + RDiv((Mag(a) % Mag(b)) * Q, Mag(b)))

FNeg(a) == IF IsNaN(a) THEN NaN
           ELSE IF a = PosInf THEN NegInf
           ELSE IF a = NegInf THEN PosInf
           ELSE -a

FAdd(a, b) == IF IsNaN(a) \/ IsNaN(b) THEN NaN
              ELSE IF IsInf(a) /\ IsInf(b) THEN (IF a = b THEN a ELSE NaN)
              ELSE IF IsInf(a) THEN a
              ELSE IF IsInf(b) THEN b
              ELSE a + b

FSub(a, b) == FAdd(a, FNeg(b))

FMul(a, b) == IF IsNaN(a) \/ IsNaN(b) THEN NaN
              ELSE IF IsInf(a) \/ IsInf(b)
                   THEN (IF a = 0 \/ b = 0 THEN NaN
                         ELSE IF Sign(a) * Sign(b) > 0 THEN PosInf ELSE NegInf)
              ELSE MulQ(a, b)

FDiv(a, b) == IF IsNaN(a) \/ IsNaN(b) THEN NaN
              ELSE IF IsInf(a) /\ IsInf(b) THEN NaN
              ELSE IF IsInf(a) THEN (IF Sign(a) * Sign(b) >= 0 THEN PosInf ELSE NegInf)
              ELSE IF IsInf(b) THEN 0
              ELSE IF b = 0 THEN (IF a = 0 THEN NaN
                                  ELSE IF a > 0 THEN PosInf ELSE NegInf)
              ELSE DivQ(a, b)

\* Comparisons are false as soon as one side is NaN.
FGt(a, b) == ~IsNaN(a) /\ ~IsNaN(b) /\ a > b
FGe(a, b) == ~IsNaN(a) /\ ~IsNaN(b) /\ a >= b

FAbs(a) == IF IsNaN(a) THEN NaN
           ELSE IF IsInf(a) THEN PosInf
           ELSE IF a < 0 THEN -a ELSE a

\* Largest r in lo..hi with r*r <= v (v >= 0), by bisection.
RECURSIVE ISqrtIn(_, _, _)
ISqrtIn(v, lo, hi) ==
    IF lo >= hi THEN lo
    ELSE LET mid == (lo + hi + 1) \div 2
         IN  IF mid * mid <= v THEN ISqrtIn(v, mid, hi) ELSE ISqrtIn(v, lo, mid - 1)

ISqrt(v) == ISqrtIn(v, 0, 46340)

\* ratio.powf(1.5): NaN for a negative base, +inf for either infinity.
Powf15(r) == IF IsNaN(r) THEN NaN
             ELSE IF IsInf(r) THEN PosInf
             ELSE IF r < 0 THEN NaN
             ELSE IF r <= 10 * Q THEN MulQ(r, ISqrt(r * Q))
             ELSE MulQ(r, ISqrt(r) * ISqrt(Q))

\* exp(x) for |x| < 1 by its series; exp(-inf) = 0, exp(+inf) = +inf.
FExp(x) == IF IsNaN(x) THEN NaN
           ELSE IF x = NegInf THEN 0
           ELSE IF x = PosInf THEN PosInf
           ELSE LET t2 == RDiv(x * x, 2 * Q)
                    t3 == RDiv(t2 * x, 3 * Q)
                    t4 == RDiv(t3 * x, 4 * Q)
                IN  Q + x + t2 + t3 + t4

\* ------------------------------------------------------- program constants
sample_rate == 44100
fft_size == 1024
InterpPeriod == 441
TwoPi == sample_rate * Q

\* sin and cos of a phase given in phase units (TwoPi = one turn), by
\* Bhaskara's rational approximation on a thousandth of a turn.
HalfSine(y) == RDiv(16 * y * (500 - y) * 100, RDiv(1250000 - 4 * y * (500 - y), 100))
FSin(p) == LET x == (p % TwoPi) \div (TwoPi \div 1000)
           IN  IF x < 500 THEN HalfSine(x) ELSE -HalfSine(x - 500)
FCos(p) == FSin(p + TwoPi \div 4)

\* ---------------------------------------------------------------- parsing
Digits == {"0", "1", "2", "3", "4", "5", "6", "7", "8", "9"}
DigitVal(c) == CASE c = "0" -> 0 [] c = "1" -> 1 [] c = "2" -> 2 [] c = "3" -> 3
                 [] c = "4" -> 4 [] c = "5" -> 5 [] c = "6" -> 6 [] c = "7" -> 7
                 [] c = "8" -> 8 [] c = "9" -> 9
Whitespace == {" ", "\n"}

RECURSIVE TrimStart(_)
TrimStart(s) == IF s # <<>> /\ Head(s) \in Whitespace THEN TrimStart(Tail(s)) ELSE s
RECURSIVE TrimEnd(_)
TrimEnd(s) == IF s # <<>> /\ s[Len(s)] \in Whitespace
              THEN TrimEnd(SubSeq(s, 1, Len(s) - 1)) ELSE s
trim(s) == TrimEnd(TrimStart(s))

RECURSIVE WholeVal(_)
WholeVal(ds) == IF ds = <<>> THEN 0
                ELSE 10 * WholeVal(SubSeq(ds, 1, Len(ds) - 1)) + DigitVal(ds[Len(ds)])
\* The fraction digits in units of 1/Q; digits below that resolution are lost.
RECURSIVE FracVal(_, _)
FracVal(ds, unit) == IF ds = <<>> \/ unit = 0 THEN 0
                     ELSE DigitVal(Head(ds)) * unit + FracVal(Tail(ds), unit \div 10)

Err == [ok |-> FALSE, val |-> 0]
Ok(v) == [ok |-> TRUE, val |-> v]
unwrap_or(r, default) == IF r.ok THEN r.val ELSE default

\* str::parse::<f32>: an optional sign, digits with at most one decimal point
\* and at least one digit.  (Exponents and the words inf/nan are not in the
\* alphabet of the lines the model types.)
ParseF32(s) ==
    LET body == IF s # <<>> /\ Head(s) \in {"+", "-"} THEN Tail(s) ELSE s
        dots == {i \in 1..Len(body) : body[i] = "."}
        dot  == IF dots = {} THEN Len(body) + 1 ELSE CHOOSE i \in dots : TRUE
        whole == SubSeq(body, 1, dot - 1)
        frac  == SubSeq(body, dot + 1, Len(body))
        mag   == WholeVal(whole) * Q + FracVal(frac, Q \div 10)
    IN  IF /\ \A i \in 1..Len(body) : body[i] \in Digits \cup {"."}
           /\ Cardinality(dots) <= 1
           /\ Len(whole) + Len(frac) >= 1
        THEN Ok(IF s # <<>> /\ Head(s) = "-" THEN -mag ELSE mag)
        ELSE Err

\* str::parse::<usize>: an optional plus sign and at least one digit.
ParseUsize(s) ==
    LET body == IF s # <<>> /\ Head(s) = "+" THEN Tail(s) ELSE s
    IN  IF body # <<>> /\ \A i \in 1..Len(body) : body[i] \in Digits
        THEN Ok(WholeVal(body))
        ELSE Err

\* ------------------------------------------------------------------ state
VARIABLES
    buffer,            \* audio_buffer: the AudioRing
    fft_input_buffer,  \* the AnalysisWindow
    phase,             \* phase_accumulator
    envelope,          \* noise-gate envelope
    adaptive_thresh,   \* adaptive_threshold
    store,             \* the ParameterStore cells, by name
    owner,             \* which thread holds each Mutex
    cap_pc, cap_k, data, cap_i, processed_sample, fft_ok,   \* capture callback
    play_pc, frames, output,                                \* playback callback
    ctl_pc, ctl_cmd, ctl_k, ctl_input, ctl_new,             \* console loop
    viz_running, viz_pc, screen, frame_count,               \* visualization thread
    credit, ncmds,                                          \* run-length counters
    appended, inserted,         \* samples pushed / interpolated by the capture callback
    ring_log,                   \* every sample pushed on the ring, in push order
    play_log,                   \* every output block copied from the ring, in order
    ws_sender, ws_lock, conn_pc, tasks, chan, delivered,    \* web_server.rs
    bc_pc, bc_msg, nbroadcast,                              \* broadcast_fft_data
    fn_call, fn_result                                      \* a call of a pure function

capVars  == <<cap_pc, cap_k, data, cap_i, processed_sample, fft_ok>>
dspVars  == <<phase, envelope, adaptive_thresh>>
playVars == <<play_pc, frames, output>>
ctlVars  == <<ctl_pc, ctl_cmd, ctl_k, ctl_input, ctl_new, ncmds>>
vizVars  == <<viz_pc, screen, frame_count>>
histVars == <<appended, inserted, ring_log, play_log>>
webVars  == <<ws_sender, ws_lock, conn_pc, tasks, chan, delivered, bc_pc, bc_msg,
             nbroadcast>>
fnVars   == <<fn_call, fn_result>>
audioVars == <<buffer, fft_input_buffer, phase, envelope, adaptive_thresh, store, owner,
               cap_pc, cap_k, data, cap_i, processed_sample, fft_ok,
               play_pc, frames, output,
               ctl_pc, ctl_cmd, ctl_k, ctl_input, ctl_new, ncmds,
               viz_running, viz_pc, screen, frame_count, credit, appended, inserted,
               ring_log, play_log>>
vars == <<buffer, fft_input_buffer, phase, envelope, adaptive_thresh, store, owner,
          cap_pc, cap_k, data, cap_i, processed_sample, fft_ok,
          play_pc, frames, output,
          ctl_pc, ctl_cmd, ctl_k, ctl_input, ctl_new,
          viz_running, viz_pc, screen, frame_count, credit, ncmds,
          appended, inserted, ring_log, play_log,
          ws_sender, ws_lock, conn_pc, tasks, chan, delivered, bc_pc, bc_msg,
          nbroadcast,
          fn_call, fn_result>>

\* Web-socket connections, and the holders of the sender slot's lock: 0 is
\* nobody, a connection number is that connection's handler, Broadcaster is
\* the task running broadcast_fft_data.
Conns == 1..MaxConns
Broadcaster == MaxConns + 1

ParamNames == {"volume", "noise_threshold", "attack_time", "release_time",
               "smoothing", "freq_shift", "buffer_size_limit"}
Locks == ParamNames \cup {"audio_buffer", "phase_accumulator", "envelope",
                          "adaptive_threshold", "fft_input_buffer"}
Threads == {"capture", "playback", "control", "viz"}

\* The values the cells are created with.
InitStore == [volume |-> 9000, noise_threshold |-> 100, attack_time |-> 100,
              release_time |-> 1000, smoothing |-> 7000, freq_shift |-> 50000,
              buffer_size_limit |-> 2400]

\* The order in which the capture callback takes its guards.
CaptureOrder == <<"audio_buffer", "phase_accumulator", "volume", "noise_threshold",
                  "attack_time", "release_time", "smoothing", "envelope",
                  "adaptive_threshold", "freq_shift", "buffer_size_limit">>

Zeros(n) == [i \in 1..n |-> 0]

\* Mutex::lock succeeds only on a free mutex (the caller waits otherwise);
\* Mutex::try_lock returns Ok on a free mutex and Err otherwise.
lock_unchecked(l) == TRUE
lock_available(l) == owner[l] = "none"
try_lock_unchecked(l) == TRUE
try_lock(l) == owner[l] = "none"
ReleaseNone(t) == owner
ReleaseAll(t) == [l \in Locks |-> IF owner[l] = t THEN "none" ELSE owner[l]]

\* ------------------------------------------------------------ effect chain
RECURSIVE SumAbs(_)
SumAbs(d) ==
    IF d = <<>> THEN 0
    ELSE IF Len(d) = 1 THEN FAbs(d[1])
    ELSE FAdd(SumAbs(SubSeq(d, 1, Len(d) \div 2)),
              SumAbs(SubSeq(d, Len(d) \div 2 + 1, Len(d))))

\* adaptive_thresh * 0.95 + signal_level * 0.05, signal_level = sum|x| / len.
AdaptiveUpdate(thresh, d) ==
    FAdd(FMul(thresh, 9500), FMul(FDiv(SumAbs(d), Len(d) * Q), 500))

\* phase += 2*pi*freq_shift/sample_rate, then one conditional subtraction.
AdvancePhase(ph, freq) ==
    LET p == ph + freq IN IF p >= TwoPi THEN p - TwoPi ELSE p

\* sample * (1 + 0.015 * (0.7 sin(phase) + 0.3 cos(phase)))
Shifted(sample, ph) ==
    FMul(sample, FAdd(Q, FMul(150, FAdd(FMul(7000, FSin(ph)), FMul(3000, FCos(ph))))))

TargetEnvelope(level, threshold) == IF FGt(level, threshold) THEN level ELSE 0

\* alpha = exp(-1 / (sample_rate * time_constant)); a zero time constant
\* divides by zero and gives exp(-inf).
Alpha(tc) ==
    FExp(IF tc = 0 THEN NegInf
         ELSE -Sign(tc) * RDiv((Q * Q * 10) \div sample_rate, 10 * Mag(tc)))

\* The two blends of the envelope update, in the order of the code.
EnvelopeUpdate(env, target, st) ==
    LET tc == IF FGt(target, env) THEN st.attack_time ELSE st.release_time
        alpha == Alpha(tc)
        e1 == FAdd(FMul(env, alpha), FMul(target, FSub(Q, alpha)))
    IN  FAdd(FMul(e1, st.smoothing), FMul(target, FSub(Q, st.smoothing)))

GateMultiplierCurveOnly(env, threshold) ==
    LET ratio == FDiv(env, threshold)
        curve == Powf15(ratio)
    IN  FMul(curve, FAdd(1500, FMul(8500, ratio)))
GateMultiplier(env, threshold) ==
    IF FGt(env, threshold) THEN Q
    ELSE LET ratio == FDiv(env, threshold)
             curve == Powf15(ratio)
         IN  FMul(curve, FAdd(1500, FMul(8500, ratio)))

\* Lines 289-326: one sample through the oscillator, the modulation, the
\* envelope follower and the gate, with the parameters st.
ProcessSample(ph0, env0, sample, st) ==
    LET ph == AdvancePhase(ph0, st.freq_shift)
        shifted == Shifted(sample, ph)
        target == TargetEnvelope(FAbs(shifted), st.noise_threshold)
        env == EnvelopeUpdate(env0, target, st)
    IN  [phase |-> ph, envelope |-> env,
         processed |-> FMul(FMul(shifted, st.volume),
                            GateMultiplier(env, st.noise_threshold))]

cubic_interpolate_a1(p0, p1, p2, p3, t) ==
    LET a0 == FAdd(FSub(FSub(p3, p2), p0), p1)
        a1 == FSub(p0, p1)
        a2 == FSub(p2, p0)
        a3 == p1
    IN  FAdd(FAdd(FAdd(FMul(FMul(FMul(a0, t), t), t), FMul(FMul(a1, t), t)),
                  FMul(a2, t)), a3)
cubic_interpolate(p0, p1, p2, p3, t) ==
    LET a0 == FAdd(FSub(FSub(p3, p2), p0), p1)
        a1 == FSub(FSub(p0, p1), a0)
        a2 == FSub(p2, p0)
        a3 == p1
    IN  FAdd(FAdd(FAdd(FMul(FMul(FMul(a0, t), t), t), FMul(FMul(a1, t), t)),
                  FMul(a2, t)), a3)

\* The interpolation step that follows the push of one processed sample.
Interpolate(buf, processed) ==
    IF Len(buf) % InterpPeriod = 0 /\ Len(buf) > 2
    THEN Append(buf, cubic_interpolate(buf[Len(buf) - 1], buf[Len(buf)],
                                       processed, processed, 5000))
    ELSE buf

\* fft_buffer.push and the drain that keeps the window at fft_size.
PushWindowKeepOldest(win, processed) ==
    LET w == Append(win, processed)
    IN  IF Len(w) > fft_size THEN SubSeq(w, 1, fft_size) ELSE w
PushWindow(win, processed) ==
    LET w == Append(win, processed)
    IN  IF Len(w) > fft_size THEN SubSeq(w, Len(w) - fft_size + 1, Len(w)) ELSE w

\* The trim that ends a capture block: drain(0..excess).
TrimRingKeepOneMore(buf, limit) ==
    IF Len(buf) > limit + 1 THEN SubSeq(buf, Len(buf) - limit, Len(buf)) ELSE buf
TrimRingKeepOldest(buf, limit) ==
    IF Len(buf) > limit THEN SubSeq(buf, 1, limit) ELSE buf
TrimRing(buf, limit) ==
    IF Len(buf) > limit THEN SubSeq(buf, Len(buf) - limit + 1, Len(buf)) ELSE buf

\* --------------------------------------------------------------- playback
PlaybackOutputNoGain(buf, n) ==
    IF Len(buf) >= n THEN [i \in 1..n |-> buf[i]] ELSE Zeros(n)
PlaybackOutputPartial(buf, n) ==
    [i \in 1..n |-> IF i <= Len(buf) THEN FMul(buf[i], 9000) ELSE 0]
PlaybackOutput(buf, n) ==
    IF Len(buf) >= n THEN [i \in 1..n |-> FMul(buf[i], 9000)] ELSE Zeros(n)

PlaybackRingKeeps(buf, n) == buf
PlaybackRing(buf, n) ==
    IF Len(buf) >= n THEN SubSeq(buf, n + 1, Len(buf)) ELSE buf

\* ---------------------------------------------------------- spectrum frame
\* Hann window 0.5 * (1 - cos(2 pi i / (n - 1))), i from 0.
Hann(i, n) == FMul(5000, FSub(Q, FCos(i * (TwoPi \div (n - 1)))))

RECURSIVE DftSum(_, _, _, _, _)
DftSum(w, k, n, i, quarter) ==
    IF i > n THEN 0
    ELSE FAdd(FMul(w[i], FSin((((k * (i - 1)) % n) * (TwoPi \div n)) + quarter)),
              DftSum(w, k, n, i + 1, quarter))

\* |re + i im| of two fixed-point numbers.
Norm(re, im) ==
    IF IsNaN(re) \/ IsNaN(im) THEN NaN
    ELSE IF IsInf(re) \/ IsInf(im) THEN PosInf
    ELSE LET c == 1 + MaxMag(re, im) \div 30000
         IN  c * ISqrt((re \div c) * (re \div c) + (im \div c) * (im \div c))

\* The magnitude spectrum of the first fft_size samples of the input, or
\* zeros when the input is shorter.  A window of zeros transforms to zeros.
perform_fft_visualization_padded(input_buffer, n) ==
    [k \in 1..(n \div 2) |-> IF k <= Len(input_buffer) THEN FAbs(input_buffer[k]) ELSE 0]
perform_fft_visualization(input_buffer, n) ==
    IF Len(input_buffer) < n THEN Zeros(n \div 2)
    ELSE IF \A i \in 1..n : input_buffer[i] = 0 THEN Zeros(n \div 2)
    ELSE LET w == [i \in 1..n |-> FMul(input_buffer[i], Hann(i - 1, n))]
         IN  [k \in 1..(n \div 2) |->
                 Norm(DftSum(w, k - 1, n, 1, TwoPi \div 4), DftSum(w, k - 1, n, 1, 0))]

\* What the renderer puts on the terminal for a spectrum: nothing for an
\* empty one, the no-signal line when no magnitude is above zero (f32::max
\* skips NaN), the bars otherwise.
display_frequency_spectrum_animated(spec) ==
    IF spec = <<>> THEN ""
    ELSE IF \A k \in 1..Len(spec) : ~FGt(spec[k], 0) THEN "No audio signal detected."
    ELSE "bars"

\* The snapshot the visualization thread analyses: a clone of the window when
\* it got the lock and the window is full, zeros otherwise.
Snapshot(got, win) == IF got /\ Len(win) >= fft_size THEN win ELSE Zeros(fft_size)

\* ------------------------------------------------------------ control data
Setters == {"v", "n", "f", "b", "a", "r", "s"}
Field(c) == CASE c = "v" -> "volume" [] c = "n" -> "noise_threshold"
              [] c = "f" -> "freq_shift" [] c = "b" -> "buffer_size_limit"
              [] c = "a" -> "attack_time" [] c = "r" -> "release_time"
              [] c = "s" -> "smoothing"

\* The values the 'd' command stores, in its order.
DefaultOrder == <<"volume", "noise_threshold", "attack_time", "release_time",
                  "smoothing", "freq_shift", "buffer_size_limit">>
DefaultValue == [volume |-> 8000, noise_threshold |-> 100, attack_time |-> 100,
                 release_time |-> 1000, smoothing |-> 7000, freq_shift |-> 50000,
                 buffer_size_limit |-> 2400]
\* The cells display_settings reads, in its order.
DisplayOrder == <<"volume", "noise_threshold", "attack_time", "release_time",
                  "smoothing", "freq_shift", "buffer_size_limit">>

\* The unwrap_or argument of each setter.
FallbackFromDefaults(c) == DefaultValue[Field(c)]
Fallback(c) == CASE c = "v" -> 9000 [] c = "n" -> 100 [] c = "f" -> 50000
                 [] c = "b" -> 2400 [] c = "a" -> 100 [] c = "r" -> 1000
                 [] c = "s" -> 7000

\* The declared range of each cell, as the prompts and the display print it.
RangeMax(c) == CASE c = "v" -> Q [] c = "n" -> 1000 [] c = "f" -> 20 * Q
                 [] c = "b" -> 10000 [] c = "a" -> 1000 [] c = "r" -> 5000
                 [] c = "s" -> Q
InRange(c, v) == 0 <= v /\ v <= RangeMax(c)

Parsed(c, line) == IF c = "b" THEN ParseUsize(trim(line)) ELSE ParseF32(trim(line))

\* new_vol, new_noise, ...: the parsed line, or the fallback.
NewValueClamped(c, line) ==
    LET v == unwrap_or(Parsed(c, line), Fallback(c))
    IN  IF InRange(c, v) THEN v ELSE Fallback(c)
NewValue(c, line) == unwrap_or(Parsed(c, line), Fallback(c))

\* What the operator types: a command line, then a value line.
CmdLines == {<<c, "\n">> : c \in Setters \cup {"d", "w", "i", "q", "x"}} \cup {<<"\n">>}
ValueLines == { <<"a", "b", "c", "\n">>, <<"-", "5", "\n">>, <<" ", "1", "\n">>,
                <<"0", "\n">> }
FirstChar(line) == IF trim(line) = <<>> THEN "" ELSE Head(trim(line))

\* What the capture hardware delivers: blocks of at most n samples.
SampleVals == {0, 5000}
RECURSIVE Blocks(_)
Blocks(n) == IF n = 0 THEN {<<>>}
             ELSE Blocks(n - 1) \cup
                  {Append(b, x) : b \in {c \in Blocks(n - 1) : Len(c) = n - 1}, x \in SampleVals}

\* ------------------------------------------------------------------- Init
\* No sample pushed yet.
InitHist == appended = 0 /\ inserted = 0 /\ ring_log = <<>> /\ play_log = <<>>

\* The web server's shared slot is None (lock free), nobody is connected,
\* no broadcast is under way.
InitWeb ==
    /\ ws_sender = 0 /\ ws_lock = 0
    /\ conn_pc = [c \in Conns |-> "absent"]
    /\ tasks = [c \in Conns |-> [recv |-> FALSE, send |-> FALSE]]
    /\ chan = [c \in Conns |-> <<>>]
    /\ delivered = [c \in Conns |-> <<>>]
    /\ bc_pc = "idle" /\ bc_msg = <<>> /\ nbroadcast = 0

\* No pure function is being called.
InitFn == fn_call = <<>> /\ fn_result = <<>>

Init ==
    /\ buffer = <<>>
    /\ fft_input_buffer = <<>>
    /\ phase = 0
    /\ envelope = 0
    /\ adaptive_thresh = 100
    /\ store = InitStore
    /\ owner = [l \in Locks |-> "none"]
    /\ cap_pc = "idle" /\ cap_k = 1 /\ data = <<>> /\ cap_i = 1
    /\ processed_sample = 0 /\ fft_ok = FALSE
    /\ play_pc = "idle" /\ frames = 0 /\ output = <<>>
    /\ ctl_pc = "menu" /\ ctl_cmd = "" /\ ctl_k = 1 /\ ctl_input = <<>> /\ ctl_new = 0
    /\ viz_running = FALSE /\ viz_pc = "none" /\ screen = "" /\ frame_count = 0
    /\ credit = ConsoleSamples /\ ncmds = 0
    /\ InitHist /\ InitWeb /\ InitFn

\* The streams run from play() until main returns.
StreamsPlaying == ctl_pc # "quit"

\* ------------------------------------------------------- capture callback
\* The backend invokes the input callback with a block.
CaptureBegin(d) ==
    /\ cap_pc = "idle" /\ StreamsPlaying
    /\ Len(d) <= credit
    /\ cap_pc' = "lock" /\ cap_k' = 1 /\ data' = d /\ cap_i' = 1
    /\ credit' = credit - Len(d)
    /\ UNCHANGED <<buffer, fft_input_buffer, dspVars, store, owner, processed_sample,
                   fft_ok, playVars, ctlVars, viz_running, vizVars>>
    /\ UNCHANGED <<histVars, webVars, fnVars>>

\* One lock().unwrap() of lines 268-280; the guard lives to the end of the block.
CaptureLock ==
    /\ cap_pc = "lock"
    /\ lock_available(CaptureOrder[cap_k])
    /\ owner' = [owner EXCEPT ![CaptureOrder[cap_k]] = "capture"]
    /\ IF cap_k = Len(CaptureOrder)
       THEN cap_pc' = "level" /\ cap_k' = 1
       ELSE cap_pc' = "lock" /\ cap_k' = cap_k + 1
    /\ UNCHANGED <<buffer, fft_input_buffer, dspVars, store, data, cap_i,
                   processed_sample, fft_ok, playVars, ctlVars, viz_running, vizVars,
                   credit>>
    /\ UNCHANGED <<histVars, webVars, fnVars>>

\* Lines 283-284.
CaptureSignalLevel ==
    /\ cap_pc = "level"
    /\ adaptive_thresh' = AdaptiveUpdate(adaptive_thresh, data)
    /\ cap_pc' = IF data = <<>> THEN "trim" ELSE "loop"
    /\ UNCHANGED <<buffer, fft_input_buffer, phase, envelope, store, owner, cap_k, data,
                   cap_i, processed_sample, fft_ok, playVars, ctlVars, viz_running,
                   vizVars, credit>>
    /\ UNCHANGED <<histVars, webVars, fnVars>>

\* What follows the analysis-window write of one sample: the interpolation
\* and the step to the next sample, or to the trim after the last one.
AfterWindow(buf, processed, log) ==
    /\ buffer' = Interpolate(buf, processed)
    /\ inserted' = inserted + (Len(Interpolate(buf, processed)) - Len(buf))
    /\ ring_log' = log \o SubSeq(Interpolate(buf, processed), Len(buf) + 1,
                                 Len(Interpolate(buf, processed)))
    /\ cap_i' = cap_i + 1
    /\ cap_pc' = IF cap_i = Len(data) THEN "trim" ELSE "loop"

\* Lines 288-331 for one sample: the effect chain, the push on the ring and
\* the try_lock on the analysis window.  When the try_lock fails the write
\* is skipped and the iteration goes on to the interpolation at once.
CaptureSample ==
    /\ cap_pc = "loop"
    /\ \E r \in {ProcessSample(phase, envelope, data[cap_i], store)} :
           /\ phase' = r.phase
           /\ envelope' = r.envelope
           /\ processed_sample' = r.processed
           /\ appended' = appended + 1
           /\ IF try_lock("fft_input_buffer")
              THEN /\ owner' = [owner EXCEPT !["fft_input_buffer"] = "capture"]
                   /\ buffer' = Append(buffer, r.processed)
                   /\ fft_ok' = TRUE
                   /\ cap_pc' = "window"
                   /\ ring_log' = Append(ring_log, r.processed)
                   /\ UNCHANGED <<cap_i, inserted>>
              ELSE /\ fft_ok' = FALSE
                   /\ AfterWindow(Append(buffer, r.processed), r.processed,
                                  Append(ring_log, r.processed))
                   /\ UNCHANGED owner
    /\ UNCHANGED <<fft_input_buffer, adaptive_thresh, store, cap_k, data, playVars,
                   ctlVars, viz_running, vizVars, credit, play_log>>
    /\ UNCHANGED <<webVars, fnVars>>

\* Lines 332-350 under the window guard: push, drain, drop the guard, then
\* the interpolation.
CaptureWindow ==
    /\ cap_pc = "window"
    /\ fft_input_buffer' = PushWindow(fft_input_buffer, processed_sample)
    /\ owner' = [owner EXCEPT !["fft_input_buffer"] = "none"]
    /\ AfterWindow(buffer, processed_sample, ring_log)
    /\ UNCHANGED <<appended, play_log>>
    /\ UNCHANGED <<dspVars, store, cap_k, data, processed_sample, fft_ok, playVars,
                   ctlVars, viz_running, vizVars, credit>>
    /\ UNCHANGED <<webVars, fnVars>>

\* Lines 352-357: the trim, then every guard is dropped as the closure returns.
CaptureTrim ==
    /\ cap_pc = "trim"
    /\ buffer' = TrimRing(buffer, store.buffer_size_limit)
    /\ owner' = ReleaseAll("capture")
    /\ cap_pc' = "idle" /\ data' = <<>> /\ cap_i' = 1
    /\ processed_sample' = 0 /\ fft_ok' = FALSE
    /\ UNCHANGED <<fft_input_buffer, dspVars, store, cap_k, playVars, ctlVars,
                   viz_running, vizVars, credit>>
    /\ UNCHANGED <<histVars, webVars, fnVars>>

\* ------------------------------------------------------ playback callback
\* The backend asks for n frames.
PlaybackBegin(n) ==
    /\ play_pc = "idle" /\ StreamsPlaying
    /\ play_pc' = "lock" /\ frames' = n
    /\ UNCHANGED <<buffer, fft_input_buffer, dspVars, store, owner, capVars, output,
                   ctlVars, viz_running, vizVars, credit>>
    /\ UNCHANGED <<histVars, webVars, fnVars>>

\* Line 367.
PlaybackLock ==
    /\ play_pc = "lock"
    /\ lock_available("audio_buffer")
    /\ owner' = [owner EXCEPT !["audio_buffer"] = "playback"]
    /\ play_pc' = "run"
    /\ UNCHANGED <<buffer, fft_input_buffer, dspVars, store, capVars, frames, output,
                   ctlVars, viz_running, vizVars, credit>>
    /\ UNCHANGED <<histVars, webVars, fnVars>>

\* Lines 368-380.
PlaybackBlock ==
    /\ play_pc = "run"
    /\ output' = PlaybackOutput(buffer, frames)
    /\ buffer' = PlaybackRing(buffer, frames)
    /\ owner' = [owner EXCEPT !["audio_buffer"] = "none"]
    /\ play_pc' = "idle"
    /\ play_log' = IF Len(buffer) >= frames THEN play_log \o PlaybackOutput(buffer, frames)
                   ELSE play_log
    /\ UNCHANGED <<fft_input_buffer, dspVars, store, capVars, frames, ctlVars,
                   viz_running, vizVars, credit>>
    /\ UNCHANGED <<appended, inserted, ring_log, webVars, fnVars>>

\* ----------------------------------------------------------- console loop
\* A setter command: the loop prompts for the value.
CtlSet(line) ==
    /\ ctl_pc = "menu" /\ ncmds < MaxCmds
    /\ FirstChar(line) \in Setters
    /\ ctl_cmd' = FirstChar(line) /\ ctl_pc' = "prompt" /\ ncmds' = ncmds + 1
    /\ UNCHANGED <<buffer, fft_input_buffer, dspVars, store, owner, capVars, playVars,
                   ctl_k, ctl_input, ctl_new, viz_running, vizVars, credit>>
    /\ UNCHANGED <<histVars, webVars, fnVars>>

\* The value line is read and parsed (lines 455-457 and alike).
CtlReadValue(line) ==
    /\ ctl_pc = "prompt"
    /\ ctl_input' = line
    /\ ctl_new' = NewValue(ctl_cmd, line)
    /\ ctl_pc' = "store"
    /\ UNCHANGED <<buffer, fft_input_buffer, dspVars, store, owner, capVars, playVars,
                   ctl_cmd, ctl_k, ncmds, viz_running, vizVars, credit>>
    /\ UNCHANGED <<histVars, webVars, fnVars>>

\* *cell.lock().unwrap() = new value (lines 458, 467, 476, 485, 506, 515, 524).
CtlStore ==
    /\ ctl_pc = "store"
    /\ lock_available(Field(ctl_cmd))
    /\ store' = [store EXCEPT ![Field(ctl_cmd)] = ctl_new]
    /\ ctl_pc' = "menu"
    /\ UNCHANGED <<buffer, fft_input_buffer, dspVars, owner, capVars, playVars,
                   ctl_cmd, ctl_k, ctl_input, ctl_new, ncmds, viz_running, vizVars,
                   credit>>
    /\ UNCHANGED <<histVars, webVars, fnVars>>

\* 'd': seven stores, one cell at a time, then display_settings.
CtlDefault(line) ==
    /\ ctl_pc = "menu" /\ ncmds < MaxCmds
    /\ FirstChar(line) = "d"
    /\ ctl_cmd' = "d" /\ ctl_pc' = "default" /\ ctl_k' = 1 /\ ncmds' = ncmds + 1
    /\ UNCHANGED <<buffer, fft_input_buffer, dspVars, store, owner, capVars, playVars,
                   ctl_input, ctl_new, viz_running, vizVars, credit>>
    /\ UNCHANGED <<histVars, webVars, fnVars>>

CtlDefaultStore ==
    /\ ctl_pc = "default"
    /\ lock_available(DefaultOrder[ctl_k])
    /\ store' = [store EXCEPT ![DefaultOrder[ctl_k]] = DefaultValue[DefaultOrder[ctl_k]]]
    /\ IF ctl_k = Len(DefaultOrder)
       THEN ctl_pc' = "display" /\ ctl_k' = 1
       ELSE ctl_pc' = "default" /\ ctl_k' = ctl_k + 1
    /\ UNCHANGED <<buffer, fft_input_buffer, dspVars, owner, capVars, playVars,
                   ctl_cmd, ctl_input, ctl_new, ncmds, viz_running, vizVars, credit>>
    /\ UNCHANGED <<histVars, webVars, fnVars>>

\* 'i': display_settings.
CtlInfo(line) ==
    /\ ctl_pc = "menu" /\ ncmds < MaxCmds
    /\ FirstChar(line) = "i"
    /\ ctl_cmd' = "i" /\ ctl_pc' = "display" /\ ctl_k' = 1 /\ ncmds' = ncmds + 1
    /\ UNCHANGED <<buffer, fft_input_buffer, dspVars, store, owner, capVars, playVars,
                   ctl_input, ctl_new, viz_running, vizVars, credit>>
    /\ UNCHANGED <<histVars, webVars, fnVars>>

\* display_settings reads one cell under its lock (lines 417-423); the
\* printing follows the last read.
CtlDisplayRead ==
    /\ ctl_pc = "display"
    /\ lock_available(DisplayOrder[ctl_k])
    /\ IF ctl_k = Len(DisplayOrder)
       THEN ctl_pc' = "menu" /\ ctl_k' = 1
       ELSE ctl_pc' = "display" /\ ctl_k' = ctl_k + 1
    /\ UNCHANGED <<buffer, fft_input_buffer, dspVars, store, owner, capVars, playVars,
                   ctl_cmd, ctl_input, ctl_new, ncmds, viz_running, vizVars, credit>>
    /\ UNCHANGED <<histVars, webVars, fnVars>>

\* 'w': the visualization thread is spawned with its flag set.
CtlViz(line) ==
    /\ ctl_pc = "menu" /\ ncmds < MaxCmds
    /\ FirstChar(line) = "w"
    /\ ctl_cmd' = "w" /\ ctl_pc' = "vizwait" /\ ncmds' = ncmds + 1
    /\ viz_running' = TRUE /\ viz_pc' = "check" /\ frame_count' = 0
    /\ UNCHANGED <<buffer, fft_input_buffer, dspVars, store, owner, capVars, playVars,
                   ctl_k, ctl_input, ctl_new, screen, credit>>
    /\ UNCHANGED <<histVars, webVars, fnVars>>

\* Enter is pressed: the flag is cleared (line 573).
CtlVizStop ==
    /\ ctl_pc = "vizwait"
    /\ viz_running' = FALSE
    /\ ctl_pc' = "join"
    /\ UNCHANGED <<buffer, fft_input_buffer, dspVars, store, owner, capVars, playVars,
                   ctl_cmd, ctl_k, ctl_input, ctl_new, ncmds, vizVars, credit>>
    /\ UNCHANGED <<histVars, webVars, fnVars>>

\* viz_thread.join() returns once the thread has ended; display_settings follows.
CtlJoin ==
    /\ ctl_pc = "join" /\ viz_pc = "done"
    /\ viz_pc' = "none"
    /\ ctl_pc' = "display" /\ ctl_k' = 1
    /\ UNCHANGED <<buffer, fft_input_buffer, dspVars, store, owner, capVars, playVars,
                   ctl_cmd, ctl_input, ctl_new, ncmds, viz_running, screen,
                   frame_count, credit>>
    /\ UNCHANGED <<histVars, webVars, fnVars>>

\* 'q': the loop breaks and main returns.
CtlQuit(line) ==
    /\ ctl_pc = "menu" /\ ncmds < MaxCmds
    /\ FirstChar(line) = "q"
    /\ ctl_cmd' = "q" /\ ctl_pc' = "quit" /\ ncmds' = ncmds + 1
    /\ UNCHANGED <<buffer, fft_input_buffer, dspVars, store, owner, capVars, playVars,
                   ctl_k, ctl_input, ctl_new, viz_running, vizVars, credit>>
    /\ UNCHANGED <<histVars, webVars, fnVars>>

\* Anything else, the empty line included: "Invalid option".
CtlInvalid(line) ==
    /\ ctl_pc = "menu" /\ ncmds < MaxCmds
    /\ FirstChar(line) \notin Setters \cup {"d", "w", "i", "q"}
    /\ ctl_cmd' = FirstChar(line) /\ ncmds' = ncmds + 1
    /\ UNCHANGED <<buffer, fft_input_buffer, dspVars, store, owner, capVars, playVars,
                   ctl_pc, ctl_k, ctl_input, ctl_new, viz_running, vizVars, credit>>
    /\ UNCHANGED <<histVars, webVars, fnVars>>

\* --------------------------------------------------- visualization thread
\* The while condition (line 542).
VizCheckIgnoresFlag ==
    /\ viz_pc = "check"
    /\ frame_count < MaxCycles
    /\ viz_pc' = "trylock"
    /\ UNCHANGED <<buffer, fft_input_buffer, dspVars, store, owner, capVars, playVars,
                   ctlVars, viz_running, screen, frame_count, credit>>
    /\ UNCHANGED <<histVars, webVars, fnVars>>
VizCheck ==
    /\ viz_pc = "check"
    /\ viz_running => frame_count < MaxCycles
    /\ viz_pc' = IF viz_running THEN "trylock" ELSE "done"
    /\ UNCHANGED <<buffer, fft_input_buffer, dspVars, store, owner, capVars, playVars,
                   ctlVars, viz_running, screen, frame_count, credit>>
    /\ UNCHANGED <<histVars, webVars, fnVars>>

\* try_lock on the analysis window (line 544).  On Err the zeros are
\* analysed at once; on Ok the guard is held until the clone is made.
VizTryLock ==
    /\ viz_pc = "trylock"
    /\ IF try_lock("fft_input_buffer")
       THEN /\ owner' = [owner EXCEPT !["fft_input_buffer"] = "viz"]
            /\ viz_pc' = "clone"
            /\ UNCHANGED <<screen, frame_count>>
       ELSE /\ \E buffer_data \in {Snapshot(FALSE, fft_input_buffer)} :
                 \E spectrum \in {perform_fft_visualization(buffer_data, fft_size)} :
                    screen' = display_frequency_spectrum_animated(spectrum)
            /\ frame_count' = frame_count + 1
            /\ viz_pc' = "check"
            /\ UNCHANGED owner
    /\ UNCHANGED <<buffer, fft_input_buffer, dspVars, store, capVars, playVars,
                   ctlVars, viz_running, credit>>
    /\ UNCHANGED <<histVars, webVars, fnVars>>

\* Lines 545-558 with the guard: the clone, the guard dropped, the spectrum.
VizCloneTakes ==
    /\ viz_pc = "clone"
    /\ owner' = [owner EXCEPT !["fft_input_buffer"] = "none"]
    /\ \E buffer_data \in {Snapshot(TRUE, fft_input_buffer)} :
          \E spectrum \in {perform_fft_visualization(buffer_data, fft_size)} :
             screen' = display_frequency_spectrum_animated(spectrum)
    /\ fft_input_buffer' = <<>>
    /\ frame_count' = frame_count + 1
    /\ viz_pc' = "check"
    /\ UNCHANGED <<buffer, dspVars, store, capVars, playVars, ctlVars, viz_running,
                   credit, histVars, webVars, fnVars>>
VizClone ==
    /\ viz_pc = "clone"
    /\ owner' = [owner EXCEPT !["fft_input_buffer"] = "none"]
    /\ \E buffer_data \in {Snapshot(TRUE, fft_input_buffer)} :
          \E spectrum \in {perform_fft_visualization(buffer_data, fft_size)} :
             screen' = display_frequency_spectrum_animated(spectrum)
    /\ frame_count' = frame_count + 1
    /\ viz_pc' = "check"
    /\ UNCHANGED <<buffer, fft_input_buffer, dspVars, store, capVars, playVars,
                   ctlVars, viz_running, credit>>
    /\ UNCHANGED <<histVars, webVars, fnVars>>

\* ------------------------------------------------------------- web server
\* The spectra a frame can carry (a magnitude can be NaN).
Spectra == {<<0, 0>>, <<5000, NaN>>}

\* FFTData as broadcast_fft_data builds it (web_server.rs 117-123).
FFTData(input_spectrum, output_spectrum) ==
    [type |-> "fft_data", input_spectrum |-> input_spectrum,
     output_spectrum |-> output_spectrum, sample_rate |-> sample_rate,
     fft_size |-> fft_size]

\* serde_json::to_string: numbers as text, a non-finite f32 as null.
JsonNumber(x) == IF IsFinite(x) THEN ToString(x) ELSE "null"
JsonArray(xs) == [i \in 1..Len(xs) |-> JsonNumber(xs[i])]
to_string(d) ==
    <<"type", d.type, "input_spectrum", JsonArray(d.input_spectrum),
      "output_spectrum", JsonArray(d.output_spectrum),
      "sample_rate", ToString(d.sample_rate), "fft_size", ToString(d.fft_size)>>

\* tx.send(message) on the slot (lines 129-131): the channel of the
\* registered sender gets the message if its receiver is alive; an Err is
\* ignored; None sends nothing.
ForwardToAll(ch, slot, alive, msg) ==
    [c \in Conns |-> IF alive[c].send THEN Append(ch[c], msg) ELSE ch[c]]
Forward(ch, slot, alive, msg) ==
    [c \in Conns |-> IF c = slot /\ alive[c].send THEN Append(ch[c], msg) ELSE ch[c]]

\* A client upgrades to a web socket: handle_websocket starts (lines 63-64).
Connect(c) ==
    /\ conn_pc[c] = "absent"
    /\ conn_pc' = [conn_pc EXCEPT ![c] = "register"]
    /\ UNCHANGED <<ws_sender, ws_lock, tasks, chan, delivered, bc_pc, bc_msg, nbroadcast>>
    /\ UNCHANGED <<audioVars, fnVars>>

\* global_sender.lock().await of line 68 or of line 105.
HandlerLock(c) ==
    /\ conn_pc[c] \in {"register", "cleanup"}
    /\ ws_lock = 0
    /\ ws_lock' = c
    /\ conn_pc' = [conn_pc EXCEPT ![c] = IF @ = "register" THEN "storing" ELSE "clearing"]
    /\ UNCHANGED <<ws_sender, tasks, chan, delivered, bc_pc, bc_msg, nbroadcast>>
    /\ UNCHANGED <<audioVars, fnVars>>

\* Lines 69-95: the slot is overwritten with this connection's sender, the
\* guard is dropped, the two tasks are spawned.
HandlerRegister(c) ==
    /\ conn_pc[c] = "storing"
    /\ ws_sender' = c
    /\ ws_lock' = 0
    /\ tasks' = [tasks EXCEPT ![c] = [recv |-> TRUE, send |-> TRUE]]
    /\ conn_pc' = [conn_pc EXCEPT ![c] = "select"]
    /\ UNCHANGED <<chan, delivered, bc_pc, bc_msg, nbroadcast>>
    /\ UNCHANGED <<audioVars, fnVars>>

\* recv_task ends: the client sent close, or the stream failed or ended.
RecvEnds(c) ==
    /\ tasks[c].recv
    /\ tasks' = [tasks EXCEPT ![c].recv = FALSE]
    /\ UNCHANGED <<ws_sender, ws_lock, conn_pc, chan, delivered, bc_pc, bc_msg, nbroadcast>>
    /\ UNCHANGED <<audioVars, fnVars>>

\* send_task forwards the oldest queued message to the socket (lines 90-91).
SendForward(c) ==
    /\ tasks[c].send /\ chan[c] # <<>>
    /\ delivered' = [delivered EXCEPT ![c] = Append(@, Head(chan[c]))]
    /\ chan' = [chan EXCEPT ![c] = Tail(@)]
    /\ UNCHANGED <<ws_sender, ws_lock, conn_pc, tasks, bc_pc, bc_msg, nbroadcast>>
    /\ UNCHANGED <<audioVars, fnVars>>

\* send_task ends: recv() gave None (queue empty, the sender dropped from
\* the slot), or the socket refused a message, which is lost.
SendEnds(c) ==
    /\ tasks[c].send
    /\ \/ chan[c] = <<>> /\ ws_sender # c /\ UNCHANGED chan
       \/ chan[c] # <<>> /\ chan' = [chan EXCEPT ![c] = <<>>]
    /\ tasks' = [tasks EXCEPT ![c].send = FALSE]
    /\ UNCHANGED <<ws_sender, ws_lock, conn_pc, delivered, bc_pc, bc_msg, nbroadcast>>
    /\ UNCHANGED <<audioVars, fnVars>>

\* tokio::select! of lines 98-101 returns when either task has ended.
HandlerSelect(c) ==
    /\ conn_pc[c] = "select"
    /\ ~tasks[c].recv \/ ~tasks[c].send
    /\ conn_pc' = [conn_pc EXCEPT ![c] = "cleanup"]
    /\ UNCHANGED <<ws_sender, ws_lock, tasks, chan, delivered, bc_pc, bc_msg, nbroadcast>>
    /\ UNCHANGED <<audioVars, fnVars>>

\* Lines 106-108: the slot is set to None, whoever's sender it holds.
HandlerClear(c) ==
    /\ conn_pc[c] = "clearing"
    /\ ws_sender' = 0
    /\ ws_lock' = 0
    /\ conn_pc' = [conn_pc EXCEPT ![c] = "closed"]
    /\ UNCHANGED <<tasks, chan, delivered, bc_pc, bc_msg, nbroadcast>>
    /\ UNCHANGED <<audioVars, fnVars>>

\* broadcast_fft_data is called with a frame: lines 117-126.
BroadcastBegin(input_spectrum, output_spectrum) ==
    /\ bc_pc = "idle" /\ nbroadcast < MaxBroadcasts
    /\ bc_msg' = to_string(FFTData(input_spectrum, output_spectrum))
    /\ bc_pc' = "lock"
    /\ nbroadcast' = nbroadcast + 1
    /\ UNCHANGED <<ws_sender, ws_lock, conn_pc, tasks, chan, delivered>>
    /\ UNCHANGED <<audioVars, fnVars>>

\* sender.lock().await (line 128).
BroadcastLock ==
    /\ bc_pc = "lock"
    /\ ws_lock = 0
    /\ ws_lock' = Broadcaster
    /\ bc_pc' = "send"
    /\ UNCHANGED <<ws_sender, conn_pc, tasks, chan, delivered, bc_msg, nbroadcast>>
    /\ UNCHANGED <<audioVars, fnVars>>

\* Lines 129-133: the send on the slot, then the guard and the message go.
BroadcastSend ==
    /\ bc_pc = "send"
    /\ chan' = Forward(chan, ws_sender, tasks, bc_msg)
    /\ ws_lock' = 0
    /\ bc_pc' = "idle" /\ bc_msg' = <<>>
    /\ UNCHANGED <<ws_sender, conn_pc, tasks, delivered, nbroadcast>>
    /\ UNCHANGED <<audioVars, fnVars>>

NextWeb ==
    \/ \E c \in Conns : Connect(c)
    \/ \E c \in Conns : HandlerLock(c)
    \/ \E c \in Conns : HandlerRegister(c)
    \/ \E c \in Conns : RecvEnds(c)
    \/ \E c \in Conns : SendForward(c)
    \/ \E c \in Conns : SendEnds(c)
    \/ \E c \in Conns : HandlerSelect(c)
    \/ \E c \in Conns : HandlerClear(c)
    \/ \E i \in Spectra, o \in Spectra : BroadcastBegin(i, o)
    \/ BroadcastLock
    \/ BroadcastSend

\* ------------------------------------------------ calls of pure functions
\* Sequences of at most n elements of S.
RECURSIVE SeqsUpTo(_, _)
SeqsUpTo(S, n) ==
    IF n = 0 THEN {<<>>}
    ELSE LET shorter == SeqsUpTo(S, n - 1)
         IN  shorter \cup {Append(q, x) : q \in {r \in shorter : Len(r) = n - 1}, x \in S}

\* Arguments of perform_fft_visualization: snapshots of up to MaxWindow + 1
\* samples, against the program's fft_size and against a size they can fill
\* and exceed.
WindowSamples == {0, 5000, NaN}
FftSizes == {MaxWindow, fft_size}

\* Arguments of cubic_interpolate: points and the fractions 0, 0.5 and 1.
CubicPoints == {0, 10000, -5000, 25000}
CubicFractions == {0, 5000, 10000}

CallAnalyzer(input_buffer, n) ==
    /\ fn_call = <<>>
    /\ fn_call' = <<"perform_fft_visualization", input_buffer, n>>
    /\ UNCHANGED <<fn_result, audioVars, webVars>>

ReturnAnalyzer ==
    /\ fn_call # <<>> /\ fn_call[1] = "perform_fft_visualization" /\ fn_result = <<>>
    /\ fn_result' = <<perform_fft_visualization(fn_call[2], fn_call[3])>>
    /\ UNCHANGED <<fn_call, audioVars, webVars>>

CallCubic(p0, p1, p2, p3, t) ==
    /\ fn_call = <<>>
    /\ fn_call' = <<"cubic_interpolate", p0, p1, p2, p3, t>>
    /\ UNCHANGED <<fn_result, audioVars, webVars>>

ReturnCubic ==
    /\ fn_call # <<>> /\ fn_call[1] = "cubic_interpolate" /\ fn_result = <<>>
    /\ fn_result' = <<cubic_interpolate(fn_call[2], fn_call[3], fn_call[4], fn_call[5],
                                        fn_call[6])>>
    /\ UNCHANGED <<fn_call, audioVars, webVars>>

NextFn ==
    \/ \E input_buffer \in SeqsUpTo(WindowSamples, MaxWindow + 1), n \in FftSizes :
          CallAnalyzer(input_buffer, n)
    \/ ReturnAnalyzer
    \/ \E p0 \in CubicPoints, p1 \in CubicPoints, p2 \in CubicPoints,
          p3 \in CubicPoints, t \in CubicFractions : CallCubic(p0, p1, p2, p3, t)
    \/ ReturnCubic

\* ------------------------------------------------------------------- Next
Next ==
    \/ \E d \in Blocks(credit) : CaptureBegin(d)
    \/ CaptureLock
    \/ CaptureSignalLevel
    \/ CaptureSample
    \/ CaptureWindow
    \/ CaptureTrim
    \/ \E n \in 0..MaxFrames : PlaybackBegin(n)
    \/ PlaybackLock
    \/ PlaybackBlock
    \/ \E line \in CmdLines : CtlSet(line)
    \/ \E line \in ValueLines : CtlReadValue(line)
    \/ CtlStore
    \/ \E line \in CmdLines : CtlDefault(line)
    \/ CtlDefaultStore
    \/ \E line \in CmdLines : CtlInfo(line)
    \/ CtlDisplayRead
    \/ \E line \in CmdLines : CtlViz(line)
    \/ CtlVizStop
    \/ CtlJoin
    \/ \E line \in CmdLines : CtlQuit(line)
    \/ \E line \in CmdLines : CtlInvalid(line)
    \/ VizCheck
    \/ VizTryLock
    \/ VizClone
    \/ NextWeb
    \/ NextFn

Spec == Init /\ [][Next]_vars

\* The stores the console can have written before the audio starts to flow:
\* the initial one and those one 'b' or 'n' command away from it (the ring
\* capacity decides the trim, a zero threshold makes the gate divide by zero).
AudioLines == ValueLines \cup {<<"2", "\n">>}
AudioStores ==
    {InitStore} \cup {[InitStore EXCEPT ![Field(c)] = NewValue(c, line)] :
                         c \in {"b", "n"}, line \in AudioLines}

InitAudio ==
    /\ buffer = <<>>
    /\ fft_input_buffer = <<>>
    /\ phase = 0
    /\ envelope = 0
    /\ adaptive_thresh = 100
    /\ store \in AudioStores
    /\ owner = [l \in Locks |-> "none"]
    /\ cap_pc = "idle" /\ cap_k = 1 /\ data = <<>> /\ cap_i = 1
    /\ processed_sample = 0 /\ fft_ok = FALSE
    /\ play_pc = "idle" /\ frames = 0 /\ output = <<>>
    /\ ctl_pc = "menu" /\ ctl_cmd = "" /\ ctl_k = 1 /\ ctl_input = <<>> /\ ctl_new = 0
    /\ viz_running = FALSE /\ viz_pc = "none" /\ screen = "" /\ frame_count = 0
    /\ credit = AudioSamples /\ ncmds = 0
    /\ InitHist /\ InitWeb /\ InitFn

NextCapture ==
    \/ \E d \in Blocks(credit) : CaptureBegin(d)
    \/ CaptureLock
    \/ CaptureSignalLevel
    \/ CaptureSample
    \/ CaptureWindow
    \/ CaptureTrim

NextPlayback ==
    \/ \E n \in 0..MaxFrames : PlaybackBegin(n)
    \/ PlaybackLock
    \/ PlaybackBlock

NextControl ==
    \/ \E line \in CmdLines : CtlSet(line)
    \/ \E line \in ValueLines : CtlReadValue(line)
    \/ CtlStore
    \/ \E line \in CmdLines : CtlDefault(line)
    \/ CtlDefaultStore
    \/ \E line \in CmdLines : CtlInfo(line)
    \/ CtlDisplayRead
    \/ \E line \in CmdLines : CtlQuit(line)
    \/ \E line \in CmdLines : CtlInvalid(line)

NextViz ==
    \/ \E line \in CmdLines : CtlViz(line)
    \/ CtlVizStop
    \/ CtlJoin
    \/ CtlDisplayRead
    \/ VizCheck
    \/ VizTryLock
    \/ VizClone

\* The stores one setter command away from the initial one, every setter
\* and every value line taken.
GateStores ==
    {InitStore} \cup {[InitStore EXCEPT ![Field(c)] = NewValue(c, line)] :
                         c \in Setters, line \in ValueLines}

InitGate ==
    /\ buffer = <<>>
    /\ fft_input_buffer = <<>>
    /\ phase = 0
    /\ envelope = 0
    /\ adaptive_thresh = 100
    /\ store \in GateStores
    /\ owner = [l \in Locks |-> "none"]
    /\ cap_pc = "idle" /\ cap_k = 1 /\ data = <<>> /\ cap_i = 1
    /\ processed_sample = 0 /\ fft_ok = FALSE
    /\ play_pc = "idle" /\ frames = 0 /\ output = <<>>
    /\ ctl_pc = "menu" /\ ctl_cmd = "" /\ ctl_k = 1 /\ ctl_input = <<>> /\ ctl_new = 0
    /\ viz_running = FALSE /\ viz_pc = "none" /\ screen = "" /\ frame_count = 0
    /\ credit = GateSamples /\ ncmds = 0
    /\ InitHist /\ InitWeb /\ InitFn

\* The capture callback alone, over every store of GateStores.
SpecGate == InitGate /\ [][NextCapture]_vars

\* One iteration of the capture loop with the window lock free, as
\* CaptureSample and CaptureWindow make it, on the parts of the state it
\* changes.
LoopIteration(st, sample) ==
    LET r == ProcessSample(st.phase, st.envelope, sample, InitStore)
        pushed == Append(st.buffer, r.processed)
        ring == Interpolate(pushed, r.processed)
    IN  [buffer |-> ring,
         fft_input_buffer |-> PushWindow(st.fft_input_buffer, r.processed),
         phase |-> r.phase, envelope |-> r.envelope,
         appended |-> st.appended + 1,
         inserted |-> st.inserted + (Len(ring) - Len(pushed))]

\* n iterations on silent samples, by halves.
RECURSIVE SilentIterations(_, _)
SilentIterations(st, n) ==
    IF n = 0 THEN st
    ELSE IF n = 1 THEN LoopIteration(st, 0)
    ELSE LET half == SilentIterations(st, n \div 2)
         IN  IF half.appended >= 0 THEN SilentIterations(half, n - n \div 2) ELSE half

\* The program after one capture block of n silent samples, taken with the
\* initial parameters while no other thread ran.
AfterSilence(n) ==
    SilentIterations([buffer |-> <<>>, fft_input_buffer |-> <<>>, phase |-> 0,
                      envelope |-> 0, appended |-> 0, inserted |-> 0], n)

\* Lengths of the silence before the blocks the model explores: one short of
\* the first and of the second interpolation, and one short of a full window.
WarmLengths == {InterpPeriod - 1, 2 * InterpPeriod - 2, fft_size - 1}

InitWarm ==
    /\ \E n \in WarmLengths : \E st \in {AfterSilence(n)} :
          /\ buffer = st.buffer
          /\ fft_input_buffer = st.fft_input_buffer
          /\ phase = st.phase
          /\ envelope = st.envelope
          /\ appended = st.appended /\ inserted = st.inserted
          /\ ring_log = st.buffer /\ play_log = <<>>
          /\ adaptive_thresh = AdaptiveUpdate(100, Zeros(n))
    /\ store = InitStore
    /\ owner = [l \in Locks |-> "none"]
    /\ cap_pc = "idle" /\ cap_k = 1 /\ data = <<>> /\ cap_i = 1
    /\ processed_sample = 0 /\ fft_ok = FALSE
    /\ play_pc = "idle" /\ frames = 0 /\ output = <<>>
    /\ ctl_pc = "menu" /\ ctl_cmd = "" /\ ctl_k = 1 /\ ctl_input = <<>> /\ ctl_new = 0
    /\ viz_running = FALSE /\ viz_pc = "none" /\ screen = "" /\ frame_count = 0
    /\ credit = AudioSamples /\ ncmds = 0
    /\ InitWeb /\ InitFn

\* Samples the playback callback has taken from the ring (nothing is
\* trimmed while the ring is below its capacity).
Drained == appended + inserted - Len(buffer)

NextPlaybackWarm ==
    \/ \E n \in 0..MaxFrames : Drained + n <= MaxDrained /\ PlaybackBegin(n)
    \/ PlaybackLock
    \/ PlaybackBlock

\* The two callbacks after a long silence.
SpecWarm == InitWarm /\ [][NextCapture \/ NextPlaybackWarm]_vars

\* The stores one 'b' command away from the initial one: ring capacities
\* above and below fft_size.
WindowStores ==
    {InitStore} \cup {[InitStore EXCEPT !.buffer_size_limit = NewValue("b", line)] :
                         line \in ValueLines}

\* After the silent block the operator may have changed the ring capacity.
InitWindow ==
    /\ \E n \in WarmLengths : \E st \in {AfterSilence(n)} :
          /\ buffer = st.buffer
          /\ fft_input_buffer = st.fft_input_buffer
          /\ phase = st.phase
          /\ envelope = st.envelope
          /\ appended = st.appended /\ inserted = st.inserted
          /\ ring_log = st.buffer /\ play_log = <<>>
          /\ adaptive_thresh = AdaptiveUpdate(100, Zeros(n))
    /\ store \in WindowStores
    /\ owner = [l \in Locks |-> "none"]
    /\ cap_pc = "idle" /\ cap_k = 1 /\ data = <<>> /\ cap_i = 1
    /\ processed_sample = 0 /\ fft_ok = FALSE
    /\ play_pc = "idle" /\ frames = 0 /\ output = <<>>
    /\ ctl_pc = "menu" /\ ctl_cmd = "" /\ ctl_k = 1 /\ ctl_input = <<>> /\ ctl_new = 0
    /\ viz_running = FALSE /\ viz_pc = "none" /\ screen = "" /\ frame_count = 0
    /\ credit = AudioSamples /\ ncmds = 0
    /\ InitWeb /\ InitFn

\* The capture callback after a long silence, over every store of
\* WindowStores.
SpecWindow == InitWindow /\ [][NextCapture]_vars

\* The audio path alone: the two callbacks over every store of AudioStores.
SpecAudio == InitAudio /\ [][NextCapture \/ NextPlayback]_vars

\* The capture callback against the console commands that read and write
\* the ParameterStore.
SpecConsole == Init /\ [][NextCapture \/ NextControl]_vars

\* The capture callback against the 'w' command and its visualization thread.
SpecViz == Init /\ [][NextCapture \/ NextViz]_vars

\* The same with the scheduling the threads run under: the visualization
\* thread takes its next step when it can (its sleep ends), and join returns
\* when the thread has ended.  Nothing obliges the user to type or the
\* backend to deliver a block.
SpecVizFair ==
    /\ SpecViz
    /\ WF_vars(VizCheck) /\ WF_vars(VizTryLock) /\ WF_vars(VizClone)
    /\ WF_vars(CtlJoin)

\* Locking does not depend on the numbers that flow: the blocks are silent
\* and the operator types one value.
NextLocks ==
    \/ \E n \in 0..credit : CaptureBegin(Zeros(n))
    \/ CaptureLock
    \/ CaptureSignalLevel
    \/ CaptureSample
    \/ CaptureWindow
    \/ CaptureTrim
    \/ NextPlayback
    \/ \E line \in CmdLines : CtlSet(line)
    \/ \E line \in {<<" ", "1", "\n">>} : CtlReadValue(line)
    \/ CtlStore
    \/ \E line \in CmdLines : CtlDefault(line)
    \/ CtlDefaultStore
    \/ \E line \in CmdLines : CtlInfo(line)
    \/ \E line \in CmdLines : CtlQuit(line)
    \/ \E line \in CmdLines : CtlInvalid(line)
    \/ NextViz

\* The four threads of main.rs together: the two callbacks, the console
\* loop and the visualization thread.
SpecLocks == Init /\ [][NextLocks]_vars

\* The same with the scheduling the threads run under: a callback that has
\* started runs on to its end, and a callback that waits for a mutex gets
\* it when the mutex is free again and again (the other callback is idle
\* between its blocks).  The fairness of CaptureSample is WF_vars written
\* out: the action is enabled exactly when cap_pc = "loop", and each of its
\* steps changes appended.
SpecLocksFair ==
    /\ SpecLocks
    /\ SF_vars(CaptureLock) /\ SF_vars(PlaybackLock)
    /\ WF_vars(CaptureSignalLevel)
    /\ ([]<>(cap_pc # "loop") \/ []<><<CaptureSample>>_vars)
    /\ WF_vars(CaptureWindow) /\ WF_vars(CaptureTrim)
    /\ WF_vars(PlaybackBlock)

\* The web server alone: connections, their tasks, and broadcasts.
SpecWeb == Init /\ [][NextWeb]_vars

\* The two free functions of main.rs, each called once on drawn arguments.
SpecFn == Init /\ [][NextFn]_vars

\* ================================================================= claims
\* Steps of the callbacks and of the console, told by the program counters.
TrimStep == cap_pc = "trim" /\ cap_pc' = "idle"
SampleStep == cap_pc = "loop" /\ (cap_pc' = "window" \/ cap_i' = cap_i + 1)
PlaybackStep == play_pc = "run" /\ play_pc' = "idle"
StoreStep == ctl_pc = "store" /\ ctl_pc' # "store"

C2_TrimKeepsNewest ==
    [][(TrimStep /\ Len(buffer) > store.buffer_size_limit) =>
          /\ Len(buffer') = store.buffer_size_limit
          /\ \A i \in 1..Len(buffer') :
                buffer'[i] = buffer[Len(buffer) - store.buffer_size_limit + i]]_vars

\* Three samples captured into a ring of capacity two: the two kept differ.
C2_Witness ==
    /\ cap_pc = "idle" /\ credit = 0 /\ play_pc = "idle" /\ output = <<>>
    /\ store.buffer_size_limit = 2 /\ Len(buffer) = 2
    /\ buffer[1] # buffer[2]

\* C3: a playback block that finds fewer samples than it asks for outputs
\* only zeros and leaves the ring as it was.
C3_UnderrunIsSilence ==
    [][(PlaybackStep /\ Len(buffer) < frames) =>
          /\ Len(output') = frames
          /\ \A i \in 1..frames : output'[i] = 0
          /\ buffer' = buffer]_vars

\* One sample was ever captured, it is still in the ring, and a playback
\* block that asked for two frames has returned two zeros.
C3_Witness ==
    /\ play_pc = "idle" /\ frames = 2 /\ output = <<0, 0>>
    /\ cap_pc = "idle" /\ credit = AudioSamples - 1
    /\ Len(buffer) = 1 /\ buffer[1] # 0

\* C4: a playback block that finds at least frames samples outputs 0.9 times
\* the front frames samples and removes exactly those from the ring.
C4_PlaybackCopiesAndDrains ==
    [][(PlaybackStep /\ Len(buffer) >= frames) =>
          /\ Len(output') = frames
          /\ \A i \in 1..frames :
                output'[i] = IF IsFinite(buffer[i]) THEN RDiv(9 * buffer[i], 10)
                             ELSE buffer[i]
          /\ Len(buffer') = Len(buffer) - frames
          /\ \A j \in 1..Len(buffer') : buffer'[j] = buffer[j + frames]]_vars

\* A two-frame block has been played from a ring that keeps a sample.
C4_Witness ==
    /\ play_pc = "idle" /\ frames = 2 /\ Len(output) = 2
    /\ output[1] # 0 /\ output[2] # 0 /\ output[1] # output[2]
    /\ Len(buffer) = 1

\* C5: the phase lies in [0, 2 pi) whatever frequencies the console stored.
C5_PhaseInRange == 0 <= phase /\ phase < TwoPi

\* C6: with the analysis window held by another thread, the capture
\* callback goes on at once: the processed sample is on the ring, the
\* window is left as it is, and the iteration is over; with the window free
\* the same sample is pushed on the ring.
C6_WindowSkippedNotAwaited ==
    [][SampleStep =>
          /\ processed_sample' =
                 ProcessSample(phase, envelope, data[cap_i], store).processed
          /\ Len(buffer') >= Len(buffer) + 1
          /\ SubSeq(buffer', 1, Len(buffer)) = buffer
          /\ buffer'[Len(buffer) + 1] = processed_sample'
          /\ owner["fft_input_buffer"] = "viz" =>
                /\ fft_input_buffer' = fft_input_buffer
                /\ owner' = owner
                /\ cap_i' = cap_i + 1 /\ cap_pc' # "window"]_vars

\* The visualization thread holds the window, and the capture callback has
\* finished a sample whose window write was skipped.
C6_Witness ==
    /\ owner["fft_input_buffer"] = "viz"
    /\ cap_pc \in {"loop", "trim"} /\ cap_i > 1 /\ ~fft_ok
    /\ Len(buffer) > Len(fft_input_buffer)

\* C7: no thread holds the locks of all parameter cells at once.
C7_NoThreadHoldsAllParameters ==
    \A t \in Threads : \E l \in ParamNames : owner[l] # t

\* C8: from the first to the last statement of a capture block the
\* ParameterStore does not change.
C8_ParametersFixedDuringBlock ==
    [][(cap_pc \in {"level", "loop", "window", "trim"}) => (store' = store)]_vars

\* The console has a new value to store while a block is past its first
\* sample.
C8_Witness ==
    /\ cap_pc \in {"window", "trim"} /\ cap_i >= 1 /\ data # <<>>
    /\ ctl_pc = "store" /\ ctl_new # store[Field(ctl_cmd)]

\* C9: a value line that does not parse stores the named fallback of the
\* parameter, leaves the other parameters alone, and the loop is back at
\* its menu.
C9_UnparsableStoresFallback ==
    [][(StoreStep /\ ~Parsed(ctl_cmd, ctl_input).ok) =>
          /\ store' = [store EXCEPT ![Field(ctl_cmd)] =
                          [volume |-> 9000, noise_threshold |-> 100,
                           attack_time |-> 100, release_time |-> 1000,
                           smoothing |-> 7000, freq_shift |-> 50000,
                           buffer_size_limit |-> 2400][Field(ctl_cmd)]]
          /\ ctl_pc' = "menu"]_vars

\* The buffer command was given "-5", which is no usize, and is done.
C9_Witness ==
    /\ ctl_pc = "menu" /\ ncmds >= 1 /\ ctl_cmd = "b"
    /\ ctl_input = <<"-", "5", "\n">>
    /\ store.buffer_size_limit = 2400

\* C10 as claimed: a value that parses but is outside the declared range is
\* replaced with the documented default before it is stored.
C10_OutOfRangeReplaced ==
    [][(StoreStep /\ Parsed(ctl_cmd, ctl_input).ok
                  /\ ~InRange(ctl_cmd, Parsed(ctl_cmd, ctl_input).val)) =>
          store'[Field(ctl_cmd)] = Fallback(ctl_cmd)]_vars

\* C10 as amended: a value that parses but is outside the declared range is
\* stored as typed, and no other parameter changes.
C10_OutOfRangeStoredAsTyped ==
    [][(StoreStep /\ Parsed(ctl_cmd, ctl_input).ok
                  /\ ~InRange(ctl_cmd, Parsed(ctl_cmd, ctl_input).val)) =>
          store' = [store EXCEPT ![Field(ctl_cmd)] =
                       Parsed(ctl_cmd, ctl_input).val]]_vars

\* The volume command was given "-5" and the store holds a volume of -5.
C10_Witness ==
    /\ ctl_pc = "menu" /\ ctl_cmd = "v" /\ ctl_input = <<"-", "5", "\n">>
    /\ store.volume = -5 * Q

\* The step in which broadcast_fft_data sends and returns.
BroadcastStep == bc_pc = "send" /\ bc_pc' = "idle"

\* C11: a broadcast puts its message on the queue of at most one
\* connection, the one whose sender is in the slot; with the slot empty the
\* message is gone when the call returns; the send is possible whatever the
\* queues hold, and so is the step of a handler that holds the slot's lock.
C11_BroadcastAtMostOne ==
    /\ [](bc_pc = "send" => ENABLED BroadcastSend)
    /\ [](ws_lock \in Conns =>
             ENABLED (HandlerRegister(ws_lock) \/ HandlerClear(ws_lock)))
    /\ [][BroadcastStep =>
            /\ Cardinality({c \in Conns : chan'[c] # chan[c]}) <= 1
            /\ \A c \in Conns :
                  \/ chan'[c] = chan[c]
                  \/ c = ws_sender /\ chan'[c] = Append(chan[c], bc_msg)
            /\ ws_sender = 0 => chan' = chan
            /\ bc_msg' = <<>>
            /\ delivered' = delivered]_vars

\* Two connections are being served, the second holds the slot, and a
\* broadcast has reached its queue and not the first one's.
C11_Witness ==
    /\ conn_pc[1] = "select" /\ conn_pc[2] = "select"
    /\ tasks[1].send /\ tasks[2].send
    /\ ws_sender = 2 /\ bc_pc = "idle" /\ nbroadcast >= 1
    /\ Len(chan[2]) = 1 /\ chan[1] = <<>> /\ delivered[1] = <<>>

\* C12: called on an input shorter than the FFT size, whatever it holds,
\* the analyzer returns FFT-size/2 magnitudes, all of them zero.
C12_ShortInputZeroSpectrum ==
    (/\ fn_call # <<>> /\ fn_call[1] = "perform_fft_visualization"
     /\ fn_result # <<>> /\ Len(fn_call[2]) < fn_call[3]) =>
        /\ Len(fn_result[1]) = fn_call[3] \div 2
        /\ \A k \in 1..Len(fn_result[1]) : fn_result[1][k] = 0

\* The analyzer has returned for three samples, one of them NaN, against
\* the program's FFT size.
C12_Witness ==
    /\ fn_call = <<"perform_fft_visualization", <<5000, NaN, 5000>>, fft_size>>
    /\ fn_result # <<>> /\ Len(fn_result[1]) = 512

\* C16: the interpolator returns a0 t^3 + a1 t^2 + a2 t + a3 with
\* a0 = p3 - p2 - p0 + p1, a1 = p0 - p1 - a0, a2 = p2 - p0, a3 = p1 (here
\* with t = h/2, both sides times 8, which is exact), it gives 1.25 for
\* (0, 1, 1, 0, 0.5), and nothing but its result changes when it returns.
C16_CubicPolynomial ==
    [][(fn_call # <<>> /\ fn_call[1] = "cubic_interpolate" /\ fn_result' # fn_result) =>
            LET p0 == fn_call[2]
                p1 == fn_call[3]
                p2 == fn_call[4]
                p3 == fn_call[5]
                h  == fn_call[6] \div 5000
                a0 == p3 - p2 - p0 + p1
                a1 == p0 - p1 - a0
                a2 == p2 - p0
                a3 == p1
            IN  /\ 8 * fn_result'[1] = a0 * h * h * h + 2 * a1 * h * h + 4 * a2 * h + 8 * a3
                /\ (<<p0, p1, p2, p3, h>> = <<0, 10000, 10000, 0, 1>>) => fn_result'[1] = 12500
                /\ UNCHANGED <<fn_call, audioVars, webVars>>]_vars

\* The interpolator has returned 1.25 for (0, 1, 1, 0, 0.5).
C16_Witness ==
    /\ fn_call = <<"cubic_interpolate", 0, 10000, 10000, 0, 5000>>
    /\ fn_result = <<12500>>

\* C13: with the flag cleared the visualization thread starts no cycle and
\* leaves its loop at the next check; it holds no lock but the window's,
\* and that only for the clone; its next step never waits; and once the
\* console is at the join, the thread ends and the join returns, the console
\* going on to the lines that follow it.
C13_VisualizationStops ==
    /\ [][(viz_pc = "check" /\ viz_pc' = "trylock") => viz_running]_vars
    /\ [][(viz_pc = "check" /\ ~viz_running /\ viz_pc' # viz_pc) => (viz_pc' = "done")]_vars
    /\ [](\A l \in Locks : owner[l] = "viz" => (l = "fft_input_buffer" /\ viz_pc = "clone"))
    /\ [](viz_pc = "trylock" => ENABLED VizTryLock)
    /\ [](viz_pc = "clone" => ENABLED VizClone)
    /\ []((viz_pc = "check" /\ ~viz_running) => ENABLED VizCheck)
    /\ (ctl_pc = "join") ~> (ctl_pc \in {"display", "menu"} /\ viz_pc = "none")

\* The thread ran a cycle, was stopped and joined; the loop is at its menu.
C13_Witness ==
    /\ ctl_pc = "menu" /\ ctl_cmd = "w" /\ viz_pc = "none" /\ ~viz_running
    /\ frame_count >= 1

\* A step of the visualization thread.
VizStep == viz_pc \in {"check", "trylock", "clone"} /\ viz_pc' # viz_pc

\* C14: the visualization thread never holds the AudioRing lock, and a step
\* of it leaves the ring, the window, the phase, the envelope, the adaptive
\* threshold and every parameter as they were.
C14_VisualizationReadsOnly ==
    /\ [](owner["audio_buffer"] # "viz")
    /\ [][VizStep =>
            /\ buffer' = buffer /\ fft_input_buffer' = fft_input_buffer
            /\ phase' = phase /\ envelope' = envelope
            /\ adaptive_thresh' = adaptive_thresh
            /\ store' = store
            /\ owner'["audio_buffer"] = owner["audio_buffer"]]_vars

\* A cycle has been drawn while the ring and the window hold a sample of
\* the block the capture callback is finishing.
C14_Witness ==
    /\ viz_pc = "check" /\ frame_count >= 1 /\ screen # ""
    /\ cap_pc = "trim" /\ Len(buffer) = 1 /\ Len(fft_input_buffer) = 1

\* C15: when the envelope a sample leaves is above the noise threshold the
\* processed sample is the modulated sample times the volume; when it is 0
\* under a positive threshold the processed sample of a finite modulated
\* sample is 0.
C15_GatePassthrough ==
    [][SampleStep =>
          LET modulated == Shifted(data[cap_i], phase')
              threshold == store.noise_threshold
          IN  /\ FGt(envelope', threshold) =>
                    processed_sample' = FMul(modulated, store.volume)
              /\ (envelope' = 0 /\ FGt(threshold, 0) /\ IsFinite(modulated)) =>
                    processed_sample' = 0]_vars

\* A sample of 0.5 went through with the initial threshold: the envelope is
\* above it and the sample on the ring is not zero.
C15_Witness ==
    /\ cap_pc \in {"window", "loop", "trim"} /\ cap_i >= 1 /\ appended >= 1
    /\ store.noise_threshold = 100 /\ FGt(envelope, store.noise_threshold)
    /\ processed_sample # 0 /\ buffer # <<>>
    /\ buffer[Len(buffer)] = processed_sample

\* C17: between iterations of the capture loop the number of interpolated
\* samples inserted so far is the one the number of processed samples
\* gives, whatever playback has removed: one for every 441 processed
\* samples, or, counting the inserted samples among the appended ones as a
\* run without playback does, one for every 440.
C17_InsertionsCountAppended ==
    (cap_pc # "window") =>
        inserted \in {appended \div InterpPeriod,
                      (appended - 1) \div (InterpPeriod - 1)}

\* C18: when the time constant a sample selects is zero or negative, alpha
\* is within [0, 1] and the first blend gives the target, so the envelope
\* the sample leaves is the smoothing blend of the target with itself.
C18_NonPositiveTimeConstantImmediate ==
    [][SampleStep =>
          LET target == TargetEnvelope(FAbs(Shifted(data[cap_i], phase')),
                                       store.noise_threshold)
              tc == IF FGt(target, envelope) THEN store.attack_time
                    ELSE store.release_time
          IN  (IsFinite(tc) /\ tc <= 0) =>
                 /\ Alpha(tc) \in 0..Q
                 /\ envelope' = FAdd(FMul(target, store.smoothing),
                                     FMul(target, FSub(Q, store.smoothing)))]_vars

\* C19: the stored envelope is a number and is not negative.
C19_EnvelopeNonNegative == FGe(envelope, 0)

\* The step that writes the analysis window.
WindowStep == cap_pc = "window"

\* C20: the analysis window holds at most fft_size samples whenever its lock
\* is free, whatever the ring capacity; a write appends the processed sample
\* as the newest entry, keeps the earlier entries in order and drops from
\* the oldest end; no other step of the capture callback, the
\* interpolation included, changes the window.
C20_WindowHoldsNewest ==
    /\ [](owner["fft_input_buffer"] = "none" => Len(fft_input_buffer) <= fft_size)
    /\ [][WindowStep =>
            LET old == fft_input_buffer
                new == fft_input_buffer'
                dropped == Len(old) + 1 - Len(new)
            IN  /\ Len(new) = IF Len(old) + 1 > fft_size THEN fft_size ELSE Len(old) + 1
                /\ new[Len(new)] = processed_sample
                /\ \A i \in 1..(Len(new) - 1) : new[i] = old[i + dropped]]_vars
    /\ [][(~WindowStep) => fft_input_buffer' = fft_input_buffer]_vars
    /\ [][inserted' > inserted =>
            Len(fft_input_buffer') <= Len(fft_input_buffer) + 1]_vars

\* A full window has dropped its oldest sample for a nonzero newest one
\* while the ring, of a capacity below fft_size, took interpolated samples.
C20_Witness ==
    /\ cap_pc = "idle" /\ owner["fft_input_buffer"] = "none"
    /\ Len(fft_input_buffer) = fft_size /\ appended > fft_size
    /\ fft_input_buffer[fft_size] # 0
    /\ inserted > 0
    /\ store.buffer_size_limit < fft_size

\* C21: for a snapshot of at least fft_size samples the analyzer returns the
\* spectrum of the snapshot's last fft_size samples.
C21_AnalyzesMostRecent ==
    (/\ fn_call # <<>> /\ fn_call[1] = "perform_fft_visualization"
     /\ fn_result # <<>>
     /\ Len(fn_call[2]) >= fn_call[3])
    => LET MostRecent(input_buffer, n) ==
               SubSeq(input_buffer, Len(input_buffer) - n + 1, Len(input_buffer))
       IN  fn_result[1] =
              perform_fft_visualization(MostRecent(fn_call[2], fn_call[3]), fn_call[3])

\* C22: the end of one connection deregisters that connection only, so the
\* registry slot is empty only when no subscriber connection is active: one
\* that has registered and neither of whose tasks has ended (no close
\* signal, no transport error).
C22_DeregistersOnlyItself ==
    LET Active(c) == conn_pc[c] = "select" /\ tasks[c].recv /\ tasks[c].send
    IN  (ws_sender = 0) => \A c \in Conns : ~Active(c)

\* C23: no thread waits, through any chain of holders, for a mutex it holds
\* itself or for a thread of the chain (no circular wait); and a callback
\* that has started to take its locks holds them all in the end.
\* WaitsOn is the mutex a thread is blocked on in lock(), "" when it is not
\* in one (the visualization thread and the capture callback's window
\* write use try_lock, which does not wait); Blocker is the thread that
\* holds that mutex, "none" when the thread is not blocked.
C23_NoCircularWaitBoundedWaiting ==
    /\ [](\A t \in Threads :
            LET WaitsOn(u) ==
                    CASE u = "capture" /\ cap_pc = "lock" -> CaptureOrder[cap_k]
                      [] u = "playback" /\ play_pc = "lock" -> "audio_buffer"
                      [] u = "control" /\ ctl_pc = "store" -> Field(ctl_cmd)
                      [] u = "control" /\ ctl_pc = "default" -> DefaultOrder[ctl_k]
                      [] u = "control" /\ ctl_pc = "display" -> DisplayOrder[ctl_k]
                      [] OTHER -> ""
                Blocker(u) == IF WaitsOn(u) = "" THEN "none" ELSE owner[WaitsOn(u)]
                b1 == Blocker(t)
                b2 == IF b1 = "none" THEN "none" ELSE Blocker(b1)
                b3 == IF b2 = "none" THEN "none" ELSE Blocker(b2)
                b4 == IF b3 = "none" THEN "none" ELSE Blocker(b3)
            IN  b4 = "none" /\ t \notin {b1, b2, b3})
    /\ (cap_pc = "lock") ~> (cap_pc = "level")
    /\ (play_pc = "lock") ~> (play_pc = "run")

\* Each callback is blocked on the ring mutex while the other holds it.
C23_Witness ==
    \/ cap_pc = "lock" /\ cap_k = 1 /\ owner["audio_buffer"] = "playback"
    \/ play_pc = "lock" /\ owner["audio_buffer"] = "capture" /\ cap_pc = "loop"
\* C24: the ring is always the newest part of what the capture callback
\* pushed; the outputs copied from the ring so far are, up to the 0.9 gain,
\* an order-preserving subsequence of the pushed samples that left the ring
\* (so none is delivered twice); and the playback block runs only while the
\* capture callback is outside its block.
\* IsSubseq(a, b): a is b with some elements left out, the order kept.
\* Gained: the samples as the playback callback writes them out, times 0.9.
C24_FifoDelivery ==
    LET RECURSIVE IsSubseq(_, _)
        IsSubseq(a, b) ==
            IF a = <<>> THEN TRUE
            ELSE IF b = <<>> THEN FALSE
            ELSE IF Head(a) = Head(b) THEN IsSubseq(Tail(a), Tail(b))
            ELSE IsSubseq(a, Tail(b))
        Gained(samples) == [i \in 1..Len(samples) |-> FMul(samples[i], 9000)]
        left == Len(ring_log) - Len(buffer)
    IN  /\ left >= 0
        /\ buffer = SubSeq(ring_log, left + 1, Len(ring_log))
        /\ IsSubseq(play_log, Gained(SubSeq(ring_log, 1, left)))
        /\ play_pc = "run" =>
              (cap_pc = "idle" \/ (cap_pc = "lock" /\ cap_k = 1))

\* A nonzero sample was played, another was trimmed away unplayed, and one
\* is still in the ring.
C24_Witness ==
    /\ play_pc = "idle" /\ cap_pc = "idle"
    /\ Len(play_log) >= 1 /\ play_log[1] # 0
    /\ Len(buffer) >= 1
    /\ Len(ring_log) > Len(play_log) + Len(buffer)

\* C25: when the 'd' command has made its last store, every parameter has
\* the value it was created with at program start.
C25_DefaultRestoresStartup ==
    [][(ctl_pc = "default" /\ ctl_pc' = "display") => store' = InitStore]_vars
====
